---- MODULE Spec2Model ----
(***************************************************************************)
(* State-machine model of cross-seed's client selection                    *)
(* (src/clients/TorrentClient.ts), command runtime (cmd.ts), option        *)
(* defaults (options.ts) and indexer service.                              *)
(*                                                                         *)
(* JavaScript values are modelled as follows: undefined and null are the   *)
(* strings UNDEFINED and NULL; text that is parsed character by character  *)
(* (CLI arguments, duration strings) is a sequence of one-character        *)
(* strings; numbers produced by parseInt/parseFloat are exact rationals.   *)
(***************************************************************************)
EXTENDS Integers, Sequences, FiniteSets, TLC

VARIABLES
    \* ---- src/clients/TorrentClient.ts
    runtimeConfig,   \* the four client URLs of the RuntimeConfig in force
    activeClient,    \* module variable `activeClient`
    firstCall,       \* observation: the first getClient() call, or NoCall
    lastCall,        \* observation: the latest getClient() call, or NoCall
    recheckCall,     \* observation: the latest shouldRecheck() call, or NoCall
    \* ---- cmd.ts: one command run through withCrossSeedRuntime
    command,         \* the command whose action handler runs
    pc,              \* position inside the handler withCrossSeedRuntime returns
    error,           \* the exception in flight (NoError when none)
    exitCode,        \* process.exitCode
    log,             \* observation: the steps performed so far, in order
    dbMigrated,      \* db.migrate.latest() has completed
    dbDestroyed,     \* db.destroy() has been called
    serverStarted,   \* serve(port, host) has been called
    jobsLoopStarted, \* jobsLoop() has been called
    decisionTable,   \* table `decision`: id -> row
    decisionBefore,  \* observation: table `decision` when the body started
    indexerTable,    \* table `indexer`: id -> row
    indexerBefore,   \* observation: table `indexer` when the body started
    \* ---- indexer service
    nextId,          \* the id the next inserted indexer row gets
    calls,           \* the service calls in flight or finished, by call slot
    testResult,      \* observation: the latest connection test, or NoCall
    \* ---- options.ts
    fileConfig,      \* module variable `fileConfig`: what getFileConfig() gave
    argv,            \* the options given on the command line, unparsed
    opts             \* the options object commander hands to the action

clientVars == <<runtimeConfig, activeClient, firstCall, lastCall>>
recheckVars == <<recheckCall>>
runVars == <<command, pc, error, exitCode, log, dbMigrated, dbDestroyed,
             serverStarted, jobsLoopStarted, decisionBefore, indexerBefore>>
tableVars == <<decisionTable, indexerTable>>
serviceVars == <<nextId, calls, testResult>>
optionVars == <<fileConfig, argv, opts>>
vars == <<clientVars, recheckVars, runVars, tableVars, serviceVars, optionVars>>

UNDEFINED == "undefined"
NULL == "null"
NoCall == [made |-> FALSE]

\* JavaScript truthiness of a string-or-undefined-or-null value.
Truthy(v) == v \notin {UNDEFINED, NULL, ""}

(***************************************************************************)
(* Torrent client selection                                                *)
(***************************************************************************)
RTORRENT == "rtorrent"
QBITTORRENT == "qbittorrent"
TRANSMISSION == "transmission"
DELUGE == "deluge"
TorrentClientType == {QBITTORRENT, RTORRENT, TRANSMISSION, DELUGE}

UrlValues == {UNDEFINED, "http://localhost:1234"}
UrlKeys == {"rtorrentRpcUrl", "qbittorrentUrl", "transmissionRpcUrl", "delugeRpcUrl"}
ClientConfigs == [UrlKeys -> UrlValues]
NoUrls == [k \in UrlKeys |-> UNDEFINED]

\* A mis-ordered chain: qbittorrent is tested before rtorrent.
instantiateDownloadClient_swapped(cfg, current) ==
    IF Truthy(cfg.qbittorrentUrl) THEN QBITTORRENT
    ELSE IF Truthy(cfg.rtorrentRpcUrl) THEN RTORRENT
    ELSE IF Truthy(cfg.transmissionRpcUrl) THEN TRANSMISSION
    ELSE IF Truthy(cfg.delugeRpcUrl) THEN DELUGE
    ELSE current

\* A chain that ends in a default adapter instead of leaving the variable alone.
instantiateDownloadClient_default(cfg, current) ==
    IF Truthy(cfg.rtorrentRpcUrl) THEN RTORRENT
    ELSE IF Truthy(cfg.qbittorrentUrl) THEN QBITTORRENT
    ELSE IF Truthy(cfg.transmissionRpcUrl) THEN TRANSMISSION
    ELSE DELUGE

\* The value of activeClient after instantiateDownloadClient() ran with the
\* runtime config cfg; `current` is its value before (no branch taken: kept).
instantiateDownloadClient(cfg, current) ==
    IF Truthy(cfg.rtorrentRpcUrl) THEN RTORRENT
    ELSE IF Truthy(cfg.qbittorrentUrl) THEN QBITTORRENT
    ELSE IF Truthy(cfg.transmissionRpcUrl) THEN TRANSMISSION
    ELSE IF Truthy(cfg.delugeRpcUrl) THEN DELUGE
    ELSE current

\* getClient() that selects on every call instead of only while unset.
getClient_reselect ==
    LET after == instantiateDownloadClient(runtimeConfig, activeClient)
        call == [made |-> TRUE, config |-> runtimeConfig,
                 before |-> activeClient, result |-> after]
    IN /\ activeClient' = after
       /\ lastCall' = call
       /\ firstCall' = IF firstCall.made THEN firstCall ELSE call
       /\ UNCHANGED runtimeConfig

\* getClient(): select while activeClient is unset, return activeClient.
getClient ==
    LET after == IF activeClient = NULL
                 THEN instantiateDownloadClient(runtimeConfig, activeClient)
                 ELSE activeClient
        call == [made |-> TRUE, config |-> runtimeConfig,
                 before |-> activeClient, result |-> after]
    IN /\ activeClient' = after
       /\ lastCall' = call
       /\ firstCall' = IF firstCall.made THEN firstCall ELSE call
       /\ UNCHANGED runtimeConfig

\* setRuntimeConfig(runtimeConfig): the config in force is replaced.
setRuntimeConfig ==
    /\ \E cfg \in ClientConfigs : runtimeConfig' = cfg
    /\ UNCHANGED <<activeClient, firstCall, lastCall>>


(***************************************************************************)
(* shouldRecheck                                                           *)
(***************************************************************************)
MATCH == "MATCH"
MATCH_SIZE_ONLY == "MATCH_SIZE_ONLY"
MATCH_PARTIAL == "MATCH_PARTIAL"
DecisionAnyMatch == {MATCH, MATCH_SIZE_ONLY, MATCH_PARTIAL}

VIDEO_DISC_EXTENSIONS == {".iso", ".vob", ".bdmv", ".m2ts"}

\* File names of the model, each with the extension path.extname gives it.
FileExt ==
    [name \in {"ep.mkv", "ep.nfo", "disc.iso", "VIDEO_TS/VTS_01_1.vob",
               "BDMV/index.bdmv", "BDMV/STREAM/00000.m2ts", "README"} |->
        CASE name = "ep.mkv" -> ".mkv"
          [] name = "ep.nfo" -> ".nfo"
          [] name = "disc.iso" -> ".iso"
          [] name = "VIDEO_TS/VTS_01_1.vob" -> ".vob"
          [] name = "BDMV/index.bdmv" -> ".bdmv"
          [] name = "BDMV/STREAM/00000.m2ts" -> ".m2ts"
          [] name = "README" -> ""]
FileNames == DOMAIN FileExt

MaxFiles == 3
\* A searchee's file list is non-empty.
Searchees ==
    {[files |-> fs] : fs \in {s \in SUBSET FileNames : s # {} /\ Cardinality(s) <= MaxFiles}}

\* hasExt(files, exts): some file has one of the extensions.
hasExt(files, exts) == \E f \in files : FileExt[f] \in exts

\* The disc-image test is skipped.
shouldRecheck_nodisc(searchee, decision) ==
    decision = MATCH_PARTIAL

shouldRecheck(searchee, decision) ==
    IF decision = MATCH_PARTIAL THEN TRUE
    ELSE IF hasExt(searchee.files, VIDEO_DISC_EXTENSIONS) THEN TRUE
    ELSE FALSE

ShouldRecheck ==
    \E s \in Searchees, d \in DecisionAnyMatch :
        recheckCall' = [made |-> TRUE, searchee |-> s, decision |-> d,
                        result |-> shouldRecheck(s, d)]


(***************************************************************************)
(* withCrossSeedRuntime and the commands run through it                    *)
(***************************************************************************)
NoError == "none"
CrossSeedError == "CrossSeedError"
OtherError == "Error"

CLEAR_CACHE == "clear-cache"
TEST_NOTIFICATION == "test-notification"
DAEMON == "daemon"
Commands == {CLEAR_CACHE, TEST_NOTIFICATION, DAEMON}

\* The second argument of withCrossSeedRuntime: { validateConfig = true }.
validateConfig(cmd) == cmd # TEST_NOTIFICATION

MaxDecisions == 3
DecisionRows == [info_hash : {NULL, "c0ffee"}, decision : {MATCH, "SIZE_MISMATCH"}]
DecisionTables == UNION {[ids -> DecisionRows] : ids \in SUBSET (1..MaxDecisions)}

NoTable == <<>>

Throw(e) ==
    /\ error' = e
    /\ pc' = "catch"

\* initializeLogger(options)
InitializeLogger ==
    /\ pc = "initializeLogger"
    /\ pc' = "parseRuntimeConfig"
    /\ log' = Append(log, "initializeLogger")
    /\ UNCHANGED <<command, error, exitCode, dbMigrated, dbDestroyed, serverStarted,
                   jobsLoopStarted, decisionBefore, indexerBefore>>
    /\ UNCHANGED <<clientVars, tableVars>>

\* validateConfig ? await parseRuntimeConfig(options) : options.
\* VALIDATION_SCHEMA.parse returns the config or parseRuntimeConfig throws a
\* CrossSeedError.
ParseRuntimeConfig ==
    /\ pc = "parseRuntimeConfig"
    /\ \/ /\ pc' = "setRuntimeConfig"
          /\ log' = Append(log, IF validateConfig(command) THEN "configParsed"
                                ELSE "configNotParsed")
          /\ UNCHANGED error
       \/ /\ validateConfig(command)
          /\ Throw(CrossSeedError)
          /\ log' = Append(log, "configInvalid")
    /\ UNCHANGED <<command, exitCode, dbMigrated, dbDestroyed, serverStarted,
                   jobsLoopStarted, decisionBefore, indexerBefore>>
    /\ UNCHANGED <<clientVars, tableVars>>

\* setRuntimeConfig(runtimeConfig); initializePushNotifier()
SetRuntimeConfigStep ==
    /\ pc = "setRuntimeConfig"
    /\ setRuntimeConfig
    /\ pc' = "migrate"
    /\ log' = Append(log, "setRuntimeConfig")
    /\ UNCHANGED <<command, error, exitCode, dbMigrated, dbDestroyed, serverStarted,
                   jobsLoopStarted, decisionBefore, indexerBefore>>
    /\ UNCHANGED tableVars

\* Startup validation is skipped: the body runs right after the migration.
MigrateLatest_skipValidation ==
    /\ pc = "migrate"
    /\ \/ /\ dbMigrated' = TRUE
          /\ pc' = "run"
          /\ log' = Append(log, "migrated")
          /\ UNCHANGED error
       \/ /\ Throw(OtherError)
          /\ log' = Append(log, "migrationFailed")
          /\ UNCHANGED dbMigrated
    /\ UNCHANGED <<command, exitCode, dbDestroyed, serverStarted,
                   jobsLoopStarted, decisionBefore, indexerBefore>>
    /\ UNCHANGED <<clientVars, tableVars>>

\* await db.migrate.latest()
MigrateLatest ==
    /\ pc = "migrate"
    /\ \/ /\ dbMigrated' = TRUE
          /\ pc' = IF validateConfig(command) THEN "doStartupValidation" ELSE "run"
          /\ log' = Append(log, "migrated")
          /\ UNCHANGED error
       \/ /\ Throw(OtherError)
          /\ log' = Append(log, "migrationFailed")
          /\ UNCHANGED dbMigrated
    /\ UNCHANGED <<command, exitCode, dbDestroyed, serverStarted,
                   jobsLoopStarted, decisionBefore, indexerBefore>>
    /\ UNCHANGED <<clientVars, tableVars>>

\* if (validateConfig) await doStartupValidation()
DoStartupValidation ==
    /\ pc = "doStartupValidation"
    /\ \/ /\ pc' = "run"
          /\ log' = Append(log, "validated")
          /\ UNCHANGED error
       \/ /\ Throw(CrossSeedError)
          /\ log' = Append(log, "validationFailed")
    /\ UNCHANGED <<command, exitCode, dbMigrated, dbDestroyed, serverStarted,
                   jobsLoopStarted, decisionBefore, indexerBefore>>
    /\ UNCHANGED <<clientVars, tableVars>>

\* The daemon body returns like any other body once the server and the jobs
\* loop are started.
Run_daemonSettles ==
    /\ pc = "run"
    /\ decisionBefore' = decisionTable
    /\ indexerBefore' = indexerTable
    /\ IF command = DAEMON
       THEN /\ serverStarted' = TRUE
            /\ jobsLoopStarted' = TRUE
            /\ pc' = "finally"
            /\ log' = log \o <<"bodyStarted", "bodyReturned">>
       ELSE /\ UNCHANGED <<serverStarted, jobsLoopStarted>>
            /\ pc' = "body"
            /\ log' = Append(log, "bodyStarted")
    /\ UNCHANGED <<command, error, exitCode, dbMigrated, dbDestroyed>>
    /\ UNCHANGED <<clientVars, tableVars>>

\* run(runtimeConfig): the body is entered. The daemon body calls serve() and
\* jobsLoop() and returns a promise that never settles.
Run ==
    /\ pc = "run"
    /\ log' = Append(log, "bodyStarted")
    /\ decisionBefore' = decisionTable
    /\ indexerBefore' = indexerTable
    /\ IF command = DAEMON
       THEN /\ serverStarted' = TRUE
            /\ jobsLoopStarted' = TRUE
            /\ pc' = "pending"
       ELSE /\ UNCHANGED <<serverStarted, jobsLoopStarted>>
            /\ pc' = "body"
    /\ UNCHANGED <<command, error, exitCode, dbMigrated, dbDestroyed>>
    /\ UNCHANGED <<clientVars, tableVars>>

\* The delete keeps the rows without infohash and drops the others.
ClearCacheBody_whereNotNull ==
    /\ pc = "body"
    /\ command = CLEAR_CACHE
    /\ \/ /\ decisionTable' = [id \in {i \in DOMAIN decisionTable :
                                           decisionTable[i].info_hash = NULL}
                            |-> decisionTable[id]]
          /\ pc' = "finally"
          /\ log' = Append(log, "bodyReturned")
          /\ UNCHANGED error
       \/ /\ Throw(OtherError)
          /\ log' = Append(log, "bodyThrew")
          /\ UNCHANGED decisionTable
    /\ UNCHANGED <<command, exitCode, dbMigrated, dbDestroyed, serverStarted,
                   jobsLoopStarted, decisionBefore, indexerBefore, indexerTable>>
    /\ UNCHANGED clientVars

\* clear-cache: await db("decision").whereNull("info_hash").del()
\* The statement deletes the rows or fails as a whole.
ClearCacheBody ==
    /\ pc = "body"
    /\ command = CLEAR_CACHE
    /\ \/ /\ decisionTable' = [id \in {i \in DOMAIN decisionTable :
                                           decisionTable[i].info_hash # NULL}
                            |-> decisionTable[id]]
          /\ pc' = "finally"
          /\ log' = Append(log, "bodyReturned")
          /\ UNCHANGED error
       \/ /\ Throw(OtherError)
          /\ log' = Append(log, "bodyThrew")
          /\ UNCHANGED decisionTable
    /\ UNCHANGED <<command, exitCode, dbMigrated, dbDestroyed, serverStarted,
                   jobsLoopStarted, decisionBefore, indexerBefore, indexerTable>>
    /\ UNCHANGED clientVars

\* test-notification: sendTestNotification returns or throws.
TestNotificationBody ==
    /\ pc = "body"
    /\ command = TEST_NOTIFICATION
    /\ \/ /\ pc' = "finally"
          /\ log' = Append(log, "bodyReturned")
          /\ UNCHANGED error
       \/ /\ \E e \in {CrossSeedError, OtherError} : Throw(e)
          /\ log' = Append(log, "bodyThrew")
    /\ UNCHANGED <<command, exitCode, dbMigrated, dbDestroyed, serverStarted,
                   jobsLoopStarted, decisionBefore, indexerBefore>>
    /\ UNCHANGED <<clientVars, tableVars>>

\* catch (e) { exitOnCrossSeedErrors(e) }: a CrossSeedError is reported and
\* the exit code set to 1; any other error is thrown again.
ExitOnCrossSeedErrors ==
    /\ pc = "catch"
    /\ exitCode' = 1
    /\ error' = IF error = CrossSeedError THEN NoError ELSE error
    /\ pc' = "finally"
    /\ log' = Append(log, "caught")
    /\ UNCHANGED <<command, dbMigrated, dbDestroyed, serverStarted,
                   jobsLoopStarted, decisionBefore, indexerBefore>>
    /\ UNCHANGED <<clientVars, tableVars>>

\* finally { await db.destroy() }
DbDestroy ==
    /\ pc = "finally"
    /\ dbDestroyed' = TRUE
    /\ pc' = "done"
    /\ log' = Append(log, "dbDestroyed")
    /\ UNCHANGED <<command, error, exitCode, dbMigrated, serverStarted,
                   jobsLoopStarted, decisionBefore, indexerBefore>>
    /\ UNCHANGED <<clientVars, tableVars>>

(***************************************************************************)
(* Indexer service                                                         *)
(***************************************************************************)
OK == "OK"
UNKNOWN_ERROR == "UNKNOWN_ERROR"
RATE_LIMITED == "RATE_LIMITED"
INVALID_AUTH == "INVALID_AUTH"
IndexerStatus == {OK, UNKNOWN_ERROR, RATE_LIMITED, INVALID_AUTH}

CapColumns ==
    {"search_cap", "tv_search_cap", "movie_search_cap", "music_search_cap",
     "audio_search_cap", "book_search_cap", "tv_id_caps", "movie_id_caps",
     "cat_caps", "limits_caps"}

\* URLs as the WHATWG URL parser splits them.
UrlA == [origin |-> "https://a.example", pathname |-> "/api", search |-> ""]
UrlAQuery == [origin |-> "https://a.example", pathname |-> "/api", search |-> "?apikey=s3cret"]
UrlB == [origin |-> "https://b.example", pathname |-> "/torznab", search |-> "?t=search"]
RawUrls == {UrlA, UrlAQuery, UrlB}

\* sanitizeUrl(url): the URL without its query.
sanitizeUrl(url) == url.origin \o url.pathname

\* A row some earlier run left in the table: probed, with a status and caps.
SeedRow(id, status) ==
    [id |-> id, name |-> "seed", url |-> sanitizeUrl(UrlA), apikey |-> "key",
     active |-> TRUE, status |-> status,
     retry_after |-> IF status = RATE_LIMITED THEN "2026-01-01T00:00:00Z" ELSE NULL]
    @@ [c \in CapColumns |-> "1"]
SeedTables == {NoTable} \cup {[id \in {1} |-> SeedRow(id, st)] : st \in IndexerStatus}

MaxCalls == 2
Calls == 1..MaxCalls
Idle == [op |-> "idle", pc |-> "idle"]
IndexerIds == 1..(MaxCalls + 1)

Has_(rec, key) == key \in DOMAIN rec
\* `v || null` for an optional string field
OrNull(rec, key) == IF Has_(rec, key) /\ Truthy(rec[key]) THEN rec[key] ELSE NULL

\* indexerCreateSchema after parsing: name optional, active defaulted to true.
CreateInputs ==
    {[url |-> u, apikey |-> "key", active |-> a] : u \in RawUrls, a \in BOOLEAN}
    \cup {[name |-> "mine", url |-> u, apikey |-> "key", active |-> TRUE] : u \in RawUrls}

\* indexerUpdateSchema after parsing: every field but id optional, name nullable.
UpdateInputs ==
    UNION {{[id |-> i],
            [id |-> i, name |-> NULL],
            [id |-> i, name |-> "renamed", active |-> FALSE],
            [id |-> i, url |-> UrlB],
            [id |-> i, apikey |-> "key2"]} : i \in IndexerIds}

\* db("indexer").where(cond).first(): a matching row, or undefined
RowsWhereUrl(url) == {id \in DOMAIN indexerTable : indexerTable[id].url = url}
\* The call has settled: it returned val or threw val.
Finish(c, out, val) ==
    [pc |-> "done", outcome |-> out, value |-> val] @@ calls[c]

\* createIndexer, up to the existence check:
\* const existing = await db("indexer").where({ url: sanitizedUrl }).first()
CreateIndexerCheck(c) ==
    /\ calls[c] = Idle
    /\ \E input \in CreateInputs :
          LET sanitizedUrl == sanitizeUrl(input.url)
          IN calls' = [calls EXCEPT ![c] =
                 IF RowsWhereUrl(sanitizedUrl) # {}
                 THEN [op |-> "createIndexer", pc |-> "done", input |-> input,
                       outcome |-> "threw", value |-> "already exists"]
                 ELSE [op |-> "createIndexer", pc |-> "insert", input |-> input,
                       sanitizedUrl |-> sanitizedUrl]]
    /\ UNCHANGED <<indexerTable, nextId>>

InsertedRow(c, id) ==
    [id |-> id,
     name |-> OrNull(calls[c].input, "name"),
     url |-> calls[c].sanitizedUrl,
     apikey |-> calls[c].input.apikey,
     active |-> calls[c].input.active,
     status |-> NULL,
     retry_after |-> NULL]
    @@ [col \in CapColumns |-> NULL]

\* The row is inserted with a made-up status.
CreateIndexerInsert_statusNew(c) ==
    /\ calls[c].op = "createIndexer"
    /\ calls[c].pc = "insert"
    /\ LET row == [InsertedRow(c, nextId) EXCEPT !.status = "NEW"]
       IN /\ indexerTable' = (nextId :> row) @@ indexerTable
          /\ calls' = [calls EXCEPT ![c] = Finish(c, "returned", row)]
    /\ nextId' = nextId + 1

\* createIndexer, the insert: db("indexer").insert({...}).returning("*")
CreateIndexerInsert(c) ==
    /\ calls[c].op = "createIndexer"
    /\ calls[c].pc = "insert"
    /\ LET row == InsertedRow(c, nextId)
       IN /\ indexerTable' = (nextId :> row) @@ indexerTable
          /\ calls' = [calls EXCEPT ![c] = Finish(c, "returned", row)]
    /\ nextId' = nextId + 1

\* updateIndexer, up to the existence check:
\* const existing = await db("indexer").where({ id }).first()
UpdateIndexerCheck(c) ==
    /\ calls[c] = Idle
    /\ \E input \in UpdateInputs :
          calls' = [calls EXCEPT ![c] =
              IF input.id \notin DOMAIN indexerTable
              THEN [op |-> "updateIndexer", pc |-> "done", input |-> input,
                    outcome |-> "threw", value |-> "not found"]
              ELSE [op |-> "updateIndexer", pc |-> "update", input |-> input,
                    existing |-> indexerTable[input.id]]]
    /\ UNCHANGED <<indexerTable, nextId>>

\* The update object: the supplied fields among name, url, apikey, active.
updateData(input) ==
    [k \in (DOMAIN input) \cap {"name", "url", "apikey", "active"} |->
        IF k = "url" THEN sanitizeUrl(input[k]) ELSE input[k]]

\* The write also resets the row's status.
Updated_resetsStatus(row, data) ==
    [col \in DOMAIN row |->
        IF col \in DOMAIN data THEN data[col]
        ELSE IF col = "status" THEN NULL ELSE row[col]]

\* The row after .update(data): the columns of data overwritten.
Updated(row, data) ==
    [col \in DOMAIN row |-> IF col \in DOMAIN data THEN data[col] ELSE row[col]]

\* updateIndexer, the write:
\* db("indexer").where({ id }).update(updateData).returning("*")
\* An empty update object makes the query builder throw; an update that
\* matches no row returns no row, and reading its name throws.
UpdateIndexerWrite(c) ==
    /\ calls[c].op = "updateIndexer"
    /\ calls[c].pc = "update"
    /\ LET id == calls[c].input.id
           data == updateData(calls[c].input)
       IN IF DOMAIN data = {}
          THEN /\ calls' = [calls EXCEPT ![c] = Finish(c, "threw", "empty update")]
               /\ UNCHANGED indexerTable
          ELSE IF id \notin DOMAIN indexerTable
          THEN /\ calls' = [calls EXCEPT ![c] = Finish(c, "threw", "TypeError")]
               /\ UNCHANGED indexerTable
          ELSE LET row == Updated(indexerTable[id], data)
               IN /\ indexerTable' = [indexerTable EXCEPT ![id] = row]
                  /\ calls' = [calls EXCEPT ![c] = Finish(c, "returned", row)]
    /\ UNCHANGED nextId

\* deleteIndexer, up to the existence check
DeleteIndexerCheck(c) ==
    /\ calls[c] = Idle
    /\ \E id \in IndexerIds :
          calls' = [calls EXCEPT ![c] =
              IF id \notin DOMAIN indexerTable
              THEN [op |-> "deleteIndexer", pc |-> "done", input |-> id,
                    outcome |-> "threw", value |-> "not found"]
              ELSE [op |-> "deleteIndexer", pc |-> "del", input |-> id]]
    /\ UNCHANGED <<indexerTable, nextId>>

\* deleteIndexer, the delete: db("indexer").where({ id }).del()
DeleteIndexerDel(c) ==
    /\ calls[c].op = "deleteIndexer"
    /\ calls[c].pc = "del"
    /\ indexerTable' = [id \in (DOMAIN indexerTable) \ {calls[c].input} |-> indexerTable[id]]
    /\ calls' = [calls EXCEPT ![c] = Finish(c, "returned", "success")]
    /\ UNCHANGED nextId

(***************************************************************************)
(* Connection tests                                                        *)
(***************************************************************************)
\* What fetch() settles with: a response with a status, or a thrown value
\* (a network error, or the abort of AbortSignal.timeout after 30 seconds).
StatusText ==
    [st \in {200, 204, 299, 304, 400, 401, 403, 404, 429, 500, 503} |->
        CASE st = 200 -> "OK"
          [] st = 204 -> "No Content"
          [] st = 299 -> ""
          [] st = 304 -> "Not Modified"
          [] st = 400 -> "Bad Request"
          [] st = 401 -> "Unauthorized"
          [] st = 403 -> "Forbidden"
          [] st = 404 -> "Not Found"
          [] st = 429 -> "Too Many Requests"
          [] st = 500 -> "Internal Server Error"
          [] st = 503 -> "Service Unavailable"]
Responses ==
    {[kind |-> "response", status |-> st, statusText |-> StatusText[st]] :
        st \in DOMAIN StatusText}
FetchThrows ==
    {[kind |-> "throw", isError |-> TRUE, message |-> "fetch failed"],
     [kind |-> "throw", isError |-> TRUE,
      message |-> "The operation was aborted due to timeout"],
     [kind |-> "throw", isError |-> FALSE, message |-> ""]}
FetchOutcomes == Responses \cup FetchThrows

\* response.ok
ResponseOk(response) == 200 <= response.status /\ response.status <= 299

\* new Error(text).message; `HTTP ${status}: ${statusText}` keeps its parts.
Message(text, status, statusText) ==
    [text |-> text, status |-> status, statusText |-> statusText]
PlainMessage(text) == Message(text, 0, "")

\* assembleUrl(url, apikey, { t: "caps" })
assembleUrl(url, apikey, params) == [url |-> url, apikey |-> apikey, params |-> params]

\* The error thrown inside the try block for a response that is not ok.
ErrorFor(response) ==
    IF response.status = 401 THEN PlainMessage("Authentication failed - check API key")
    ELSE IF response.status = 429 THEN PlainMessage("Rate limited by indexer")
    ELSE Message("HTTP", response.status, response.statusText)

\* Every status below 400 counts as a success (response.ok is not used).
testIndexerConnection_okBelow400(url, apikey, name, fetched) ==
    IF fetched.kind = "response" /\ fetched.status < 400
    THEN [success |-> TRUE, prefix |-> "", message |-> PlainMessage("Connection successful")]
    ELSE [success |-> FALSE, prefix |-> "Connection failed: ",
          message |->
              IF fetched.kind = "response" THEN ErrorFor(fetched)
              ELSE IF fetched.isError THEN PlainMessage(fetched.message)
              ELSE PlainMessage("Unknown error")]

\* 429 is not told apart from the other failures.
testIndexerConnection_no429(url, apikey, name, fetched) ==
    IF fetched.kind = "response" /\ ResponseOk(fetched)
    THEN [success |-> TRUE, prefix |-> "", message |-> PlainMessage("Connection successful")]
    ELSE [success |-> FALSE, prefix |-> "Connection failed: ",
          message |->
              IF fetched.kind = "response"
              THEN IF fetched.status = 401
                   THEN PlainMessage("Authentication failed - check API key")
                   ELSE Message("HTTP", fetched.status, fetched.statusText)
              ELSE IF fetched.isError THEN PlainMessage(fetched.message)
              ELSE PlainMessage("Unknown error")]

\* testIndexerConnection(url, apikey, name), given what fetch settled with:
\* the value it returns.
testIndexerConnection(url, apikey, name, fetched) ==
    IF fetched.kind = "response" /\ ResponseOk(fetched)
    THEN [success |-> TRUE, prefix |-> "", message |-> PlainMessage("Connection successful")]
    ELSE [success |-> FALSE, prefix |-> "Connection failed: ",
          message |->
              IF fetched.kind = "response" THEN ErrorFor(fetched)
              ELSE IF fetched.isError THEN PlainMessage(fetched.message)
              ELSE PlainMessage("Unknown error")]

Tested(via, url, apikey, name, fetched) ==
    testResult' = [made |-> TRUE, via |-> via, outcome |-> "returned",
                   request |-> assembleUrl(url, apikey, [t |-> "caps"]),
                   name |-> name, fetched |-> fetched,
                   result |-> testIndexerConnection(url, apikey, name, fetched)]

\* A direct call of testIndexerConnection(url, apikey, name).
TestIndexerConnection ==
    /\ \E u \in RawUrls, k \in {"key", "key2"}, fetched \in FetchOutcomes :
          Tested("testIndexerConnection", u, k, "mine", fetched)
    /\ UNCHANGED <<indexerTable, nextId, calls>>

\* testExistingIndexer(id): getIndexerById throws when no row has the id.
TestExistingIndexer ==
    /\ \E id \in IndexerIds :
          IF id \notin DOMAIN indexerTable
          THEN testResult' = [made |-> TRUE, via |-> "testExistingIndexer",
                              outcome |-> "threw", value |-> "not found"]
          ELSE LET row == indexerTable[id]
               IN \E fetched \in FetchOutcomes :
                      Tested("testExistingIndexer", row.url, row.apikey,
                             IF Truthy(row.name) THEN row.name ELSE row.url, fetched)
    /\ UNCHANGED <<indexerTable, nextId, calls>>

\* testNewIndexer(input)
TestNewIndexer ==
    /\ \E u \in RawUrls, k \in {"key", "key2"}, fetched \in FetchOutcomes :
          LET testUrl == sanitizeUrl(u)
          IN Tested("testNewIndexer", testUrl, k, testUrl, fetched)
    /\ UNCHANGED <<indexerTable, nextId, calls>>

(***************************************************************************)
(* Options: config file, defaults, command line                            *)
(***************************************************************************)
\* JavaScript values of the options: undefined, a number (an exact
\* rational), NaN, or a string (its characters).
Undefined == [type |-> "undefined"]
NaN == [type |-> "NaN"]
RECURSIVE Gcd(_, _)
Gcd(a, b) == IF b = 0 THEN a ELSE Gcd(b, a % b)
Num(n, d) == [type |-> "number", num |-> n \div Gcd(n, d), den |-> d \div Gcd(n, d)]
Str(chars) == [type |-> "string", chars |-> chars]

Digits == <<"0", "1", "2", "3", "4", "5", "6", "7", "8", "9">>
IsDigit(c) == \E i \in 1..10 : Digits[i] = c
DigitVal(c) == (CHOOSE i \in 1..10 : Digits[i] = c) - 1

\* The length of the longest prefix of chars, from position `from`, made of digits.
RECURSIVE DigitRun(_, _)
DigitRun(chars, from) ==
    IF from <= Len(chars) /\ IsDigit(chars[from]) THEN 1 + DigitRun(chars, from + 1) ELSE 0

\* The value of the digits chars[from .. from + n - 1].
RECURSIVE DigitsValue(_, _, _)
DigitsValue(chars, from, n) ==
    IF n = 0 THEN 0
    ELSE 10 * DigitsValue(chars, from, n - 1) + DigitVal(chars[from + n - 1])

RECURSIVE Pow10(_)
Pow10(n) == IF n = 0 THEN 1 ELSE 10 * Pow10(n - 1)

\* parseInt(s): the leading digits, NaN when there are none.
parseInt(chars) ==
    LET n == DigitRun(chars, 1)
    IN IF n = 0 THEN NaN ELSE Num(DigitsValue(chars, 1, n), 1)

\* parseFloat(s): leading digits, then optionally a point and more digits.
parseFloat(chars) ==
    LET n == DigitRun(chars, 1)
        point == n + 1 <= Len(chars) /\ chars[n + 1] = "."
        f == IF point THEN DigitRun(chars, n + 2) ELSE 0
    IN IF n = 0 /\ f = 0 THEN NaN
       ELSE Num(DigitsValue(chars, 1, n) * Pow10(f) + DigitsValue(chars, n + 2, f), Pow10(f))

\* The units the `ms` package knows (lower case), in milliseconds.
MsUnits ==
    {<<"m", "s">>,
     <<"s">>,
     <<"s", "e", "c">>,
     <<"s", "e", "c", "s">>,
     <<"s", "e", "c", "o", "n", "d">>,
     <<"s", "e", "c", "o", "n", "d", "s">>,
     <<"m">>,
     <<"m", "i", "n">>,
     <<"m", "i", "n", "s">>,
     <<"m", "i", "n", "u", "t", "e">>,
     <<"m", "i", "n", "u", "t", "e", "s">>,
     <<"h">>,
     <<"h", "r">>,
     <<"h", "r", "s">>,
     <<"h", "o", "u", "r">>,
     <<"h", "o", "u", "r", "s">>,
     <<"d">>,
     <<"d", "a", "y">>,
     <<"d", "a", "y", "s">>}
MsUnit(u) ==
    CASE u = <<"m", "s">> -> 1
          [] u = <<"s">> -> 1000
          [] u = <<"s", "e", "c">> -> 1000
          [] u = <<"s", "e", "c", "s">> -> 1000
          [] u = <<"s", "e", "c", "o", "n", "d">> -> 1000
          [] u = <<"s", "e", "c", "o", "n", "d", "s">> -> 1000
          [] u = <<"m">> -> 60000
          [] u = <<"m", "i", "n">> -> 60000
          [] u = <<"m", "i", "n", "s">> -> 60000
          [] u = <<"m", "i", "n", "u", "t", "e">> -> 60000
          [] u = <<"m", "i", "n", "u", "t", "e", "s">> -> 60000
          [] u = <<"h">> -> 3600000
          [] u = <<"h", "r">> -> 3600000
          [] u = <<"h", "r", "s">> -> 3600000
          [] u = <<"h", "o", "u", "r">> -> 3600000
          [] u = <<"h", "o", "u", "r", "s">> -> 3600000
          [] u = <<"d">> -> 86400000
          [] u = <<"d", "a", "y">> -> 86400000
          [] u = <<"d", "a", "y", "s">> -> 86400000

RECURSIVE SpaceRun(_, _)
SpaceRun(chars, from) ==
    IF from <= Len(chars) /\ chars[from] = " " THEN 1 + SpaceRun(chars, from + 1) ELSE 0

\* ms(str): the string must be a number, spaces, and optionally a unit, and
\* nothing else; the result is the duration in milliseconds, undefined when
\* the string does not have that form.
ms(str) ==
    LET chars == str.chars
        n == DigitRun(chars, 1)
        point == n + 1 <= Len(chars) /\ chars[n + 1] = "."
        f == IF point THEN DigitRun(chars, n + 2) ELSE 0
        numLen == IF point /\ f > 0 THEN n + 1 + f ELSE n
        sp == SpaceRun(chars, numLen + 1)
        unit == SubSeq(chars, numLen + sp + 1, Len(chars))
        frac == IF point /\ f > 0 THEN f ELSE 0
        value == DigitsValue(chars, 1, n) * Pow10(frac) + DigitsValue(chars, n + 2, frac)
    IN IF numLen = 0 THEN Undefined
       ELSE IF unit = <<>> THEN Num(value, Pow10(frac))
       ELSE IF unit \in MsUnits THEN Num(value * MsUnit(unit), Pow10(frac))
       ELSE Undefined

\* fallback(...args): the first argument that is not undefined.
RECURSIVE fallback(_)
fallback(args) ==
    IF args = <<>> THEN Undefined
    ELSE IF Head(args) # Undefined THEN Head(args)
    ELSE fallback(Tail(args))

\* Action.SAVE, Action.INJECT
SAVE == Str(<<"s", "a", "v", "e">>)
INJECT == Str(<<"i", "n", "j", "e", "c", "t">>)

OptionNames ==
    {"maxDataDepth", "fuzzySizeThreshold", "action", "delay", "snatchTimeout",
     "searchTimeout", "searchLimit", "port"}

\* What a config file can hold for each option: nothing, or a value.
FileConfigValues ==
    [maxDataDepth : {Undefined, Num(3, 1)},
     fuzzySizeThreshold : {Undefined, Num(5, 100)},
     action : {Undefined, INJECT},
     delay : {Undefined, Num(30, 1)},
     snatchTimeout : {Undefined, Str(<<"1", " ", "m", "i", "n", "u", "t", "e">>)},
     searchTimeout : {Undefined, Str(<<"2", "m">>)},
     searchLimit : {Undefined, Num(100, 1)},
     port : {Undefined, Num(3000, 1)}]

\* What the command line gives for an option that is given.
CliRaw ==
    [maxDataDepth |-> <<"5">>,
     fuzzySizeThreshold |-> <<"0", ".", "0", "5">>,
     action |-> <<"i", "n", "j", "e", "c", "t">>,
     delay |-> <<"2", ".", "5">>,
     snatchTimeout |-> <<"4", "5", "s">>,
     searchTimeout |-> <<"9", "0", " ", "s", "e", "c", "o", "n", "d", "s">>,
     searchLimit |-> <<"7", "x">>,
     port |-> <<"8", "0", "8", "0">>]

MaxArgs == 2
Argvs ==
    {[o \in given |-> CliRaw[o]] :
        given \in {g \in SUBSET OptionNames : Cardinality(g) <= MaxArgs}}

\* The options, each with its default and its argParser.
maxDataDepthOption ==
    [default |-> fallback(<<fileConfig.maxDataDepth, Num(2, 1)>>), argParser |-> "parseInt"]
fuzzySizeThresholdOption ==
    [default |-> fallback(<<fileConfig.fuzzySizeThreshold, Num(2, 100)>>),
     argParser |-> "parseFloat"]
actionOption ==
    [default |-> fallback(<<fileConfig.action, SAVE>>), argParser |-> "none"]
delayOption ==
    [default |-> fallback(<<fileConfig.delay, Num(10, 1)>>), argParser |-> "parseFloat"]
snatchTimeoutOption ==
    [default |-> fallback(<<fileConfig.snatchTimeout, Str(<<"3", "0", " ", "s", "e", "c", "o", "n", "d", "s", ")">>)>>),
     argParser |-> "none"]
searchTimeoutOption ==
    [default |-> fallback(<<fileConfig.searchTimeout, Str(<<"3", "0", " ", "s", "e", "c", "o", "n", "d", "s", ")">>)>>),
     argParser |-> "none"]
searchLimitOption ==
    [default |-> fallback(<<fileConfig.searchLimit, Num(0, 1)>>), argParser |-> "parseInt"]

\* The config file's port is ignored.
portOption_ignoresFile ==
    [default |-> Num(2468, 1), argParser |-> "parseInt"]

portOption ==
    [default |-> fallback(<<fileConfig.port, Num(2468, 1)>>), argParser |-> "parseInt"]

Options ==
    [maxDataDepth |-> maxDataDepthOption,
     fuzzySizeThreshold |-> fuzzySizeThresholdOption,
     action |-> actionOption,
     delay |-> delayOption,
     snatchTimeout |-> snatchTimeoutOption,
     searchTimeout |-> searchTimeoutOption,
     searchLimit |-> searchLimitOption,
     port |-> portOption]

\* The value commander stores for an option: the parsed argument when the
\* option is given, its default otherwise.
OptionValue(option, given, raw) ==
    IF ~given THEN option.default
    ELSE IF option.argParser = "parseInt" THEN parseInt(raw)
    ELSE IF option.argParser = "parseFloat" THEN parseFloat(raw)
    ELSE Str(raw)

\* program.parseAsync(): the command line is parsed into the options object.
ParseAsync ==
    /\ opts = Undefined
    /\ \E args \in Argvs :
          /\ argv' = args
          /\ opts' = [o \in OptionNames |->
                         OptionValue(Options[o], o \in DOMAIN args,
                                     IF o \in DOMAIN args THEN args[o] ELSE <<>>)]
    /\ UNCHANGED fileConfig

(***************************************************************************)
(* Specifications                                                          *)
(***************************************************************************)
NextClient ==
    \/ getClient /\ UNCHANGED <<recheckVars, runVars, tableVars, serviceVars, optionVars>>
    \/ setRuntimeConfig /\ UNCHANGED <<recheckVars, runVars, tableVars, serviceVars, optionVars>>

\* Process start: the config parsed from the options is any combination of
\* URLs, and no adapter has been instantiated yet (activeClient = null).
InitClient ==
    /\ runtimeConfig \in ClientConfigs
    /\ activeClient = NULL
    /\ firstCall = NoCall
    /\ lastCall = NoCall
    /\ recheckCall = NoCall
    /\ command = CLEAR_CACHE
    /\ pc = "done"
    /\ error = NoError
    /\ exitCode = 0
    /\ log = <<>>
    /\ dbMigrated = FALSE
    /\ dbDestroyed = FALSE
    /\ serverStarted = FALSE
    /\ jobsLoopStarted = FALSE
    /\ decisionTable = NoTable
    /\ decisionBefore = NoTable
    /\ indexerTable = NoTable
    /\ indexerBefore = NoTable
    /\ nextId = 1
    /\ calls = [c \in Calls |-> Idle]
    /\ testResult = NoCall
    /\ fileConfig = [o \in OptionNames |-> Undefined]
    /\ argv = <<>>
    /\ opts = Undefined

SpecClient == InitClient /\ [][NextClient]_vars

NextRecheck == ShouldRecheck /\ UNCHANGED <<clientVars, runVars, tableVars, serviceVars, optionVars>>

InitRecheck ==
    /\ recheckCall = NoCall
    /\ runtimeConfig = NoUrls
    /\ activeClient = NULL
    /\ firstCall = NoCall
    /\ lastCall = NoCall
    /\ command = CLEAR_CACHE
    /\ pc = "done"
    /\ error = NoError
    /\ exitCode = 0
    /\ log = <<>>
    /\ dbMigrated = FALSE
    /\ dbDestroyed = FALSE
    /\ serverStarted = FALSE
    /\ jobsLoopStarted = FALSE
    /\ decisionTable = NoTable
    /\ decisionBefore = NoTable
    /\ indexerTable = NoTable
    /\ indexerBefore = NoTable
    /\ nextId = 1
    /\ calls = [c \in Calls |-> Idle]
    /\ testResult = NoCall
    /\ fileConfig = [o \in OptionNames |-> Undefined]
    /\ argv = <<>>
    /\ opts = Undefined

SpecRecheck == InitRecheck /\ [][NextRecheck]_vars

NextRuntime ==
    \/ InitializeLogger /\ UNCHANGED <<recheckVars, serviceVars, optionVars>>
    \/ ParseRuntimeConfig /\ UNCHANGED <<recheckVars, serviceVars, optionVars>>
    \/ SetRuntimeConfigStep /\ UNCHANGED <<recheckVars, serviceVars, optionVars>>
    \/ MigrateLatest /\ UNCHANGED <<recheckVars, serviceVars, optionVars>>
    \/ DoStartupValidation /\ UNCHANGED <<recheckVars, serviceVars, optionVars>>
    \/ Run /\ UNCHANGED <<recheckVars, serviceVars, optionVars>>
    \/ ClearCacheBody /\ UNCHANGED <<recheckVars, serviceVars, optionVars>>
    \/ TestNotificationBody /\ UNCHANGED <<recheckVars, serviceVars, optionVars>>
    \/ ExitOnCrossSeedErrors /\ UNCHANGED <<recheckVars, serviceVars, optionVars>>
    \/ DbDestroy /\ UNCHANGED <<recheckVars, serviceVars, optionVars>>

\* Process start: one command was chosen on the command line, the database
\* holds any decision rows earlier runs left, nothing has run yet.
InitRuntime ==
    /\ command \in Commands
    /\ pc = "initializeLogger"
    /\ error = NoError
    /\ exitCode = 0
    /\ log = <<>>
    /\ dbMigrated = FALSE
    /\ dbDestroyed = FALSE
    /\ serverStarted = FALSE
    /\ jobsLoopStarted = FALSE
    /\ decisionTable \in DecisionTables
    /\ decisionBefore = NoTable
    /\ indexerTable = [id \in {1} |-> SeedRow(id, OK)]
    /\ indexerBefore = NoTable
    /\ nextId = 2
    /\ calls = [c \in Calls |-> Idle]
    /\ testResult = NoCall
    /\ fileConfig = [o \in OptionNames |-> Undefined]
    /\ argv = <<>>
    /\ opts = Undefined
    /\ runtimeConfig = NoUrls
    /\ activeClient = NULL
    /\ firstCall = NoCall
    /\ lastCall = NoCall
    /\ recheckCall = NoCall

SpecRuntime == InitRuntime /\ [][NextRuntime]_vars

ServiceStep(A) ==
    A /\ UNCHANGED <<clientVars, recheckVars, runVars, decisionTable, testResult, optionVars>>

NextIndexer ==
    \/ \E c \in Calls : ServiceStep(CreateIndexerCheck(c))
    \/ \E c \in Calls : ServiceStep(CreateIndexerInsert(c))
    \/ \E c \in Calls : ServiceStep(UpdateIndexerCheck(c))
    \/ \E c \in Calls : ServiceStep(UpdateIndexerWrite(c))
    \/ \E c \in Calls : ServiceStep(DeleteIndexerCheck(c))
    \/ \E c \in Calls : ServiceStep(DeleteIndexerDel(c))

\* The server is up: the table holds what earlier runs left, no call is in
\* flight.
InitIndexer ==
    /\ indexerTable \in SeedTables
    /\ nextId = IF indexerTable = NoTable THEN 1 ELSE 2
    /\ calls = [c \in Calls |-> Idle]
    /\ testResult = NoCall
    /\ fileConfig = [o \in OptionNames |-> Undefined]
    /\ argv = <<>>
    /\ opts = Undefined
    /\ command = DAEMON
    /\ pc = "pending"
    /\ error = NoError
    /\ exitCode = 0
    /\ log = <<>>
    /\ dbMigrated = TRUE
    /\ dbDestroyed = FALSE
    /\ serverStarted = TRUE
    /\ jobsLoopStarted = TRUE
    /\ decisionTable = NoTable
    /\ decisionBefore = NoTable
    /\ indexerBefore = indexerTable
    /\ runtimeConfig = NoUrls
    /\ activeClient = NULL
    /\ firstCall = NoCall
    /\ lastCall = NoCall
    /\ recheckCall = NoCall

SpecIndexer == InitIndexer /\ [][NextIndexer]_vars

TestStep(A) ==
    A /\ UNCHANGED <<clientVars, recheckVars, runVars, decisionTable, optionVars>>

NextTest ==
    \/ TestStep(TestIndexerConnection)
    \/ TestStep(TestExistingIndexer)
    \/ TestStep(TestNewIndexer)

InitTest ==
    /\ indexerTable \in SeedTables
    /\ nextId = IF indexerTable = NoTable THEN 1 ELSE 2
    /\ calls = [c \in Calls |-> Idle]
    /\ testResult = NoCall
    /\ fileConfig = [o \in OptionNames |-> Undefined]
    /\ argv = <<>>
    /\ opts = Undefined
    /\ command = DAEMON
    /\ pc = "pending"
    /\ error = NoError
    /\ exitCode = 0
    /\ log = <<>>
    /\ dbMigrated = TRUE
    /\ dbDestroyed = FALSE
    /\ serverStarted = TRUE
    /\ jobsLoopStarted = TRUE
    /\ decisionTable = NoTable
    /\ decisionBefore = NoTable
    /\ indexerBefore = indexerTable
    /\ runtimeConfig = NoUrls
    /\ activeClient = NULL
    /\ firstCall = NoCall
    /\ lastCall = NoCall
    /\ recheckCall = NoCall

SpecTest == InitTest /\ [][NextTest]_vars

NextOptions ==
    ParseAsync /\ UNCHANGED <<clientVars, recheckVars, runVars, tableVars, serviceVars>>

\* The module has loaded: getFileConfig() gave any config file, the command
\* line is not parsed yet.
InitOptions ==
    /\ fileConfig \in FileConfigValues
    /\ argv = <<>>
    /\ opts = Undefined
    /\ indexerTable = NoTable
    /\ nextId = 1
    /\ calls = [c \in Calls |-> Idle]
    /\ testResult = NoCall
    /\ command = CLEAR_CACHE
    /\ pc = "done"
    /\ error = NoError
    /\ exitCode = 0
    /\ log = <<>>
    /\ dbMigrated = FALSE
    /\ dbDestroyed = FALSE
    /\ serverStarted = FALSE
    /\ jobsLoopStarted = FALSE
    /\ decisionTable = NoTable
    /\ decisionBefore = NoTable
    /\ indexerBefore = NoTable
    /\ runtimeConfig = NoUrls
    /\ activeClient = NULL
    /\ firstCall = NoCall
    /\ lastCall = NoCall
    /\ recheckCall = NoCall

SpecOptions == InitOptions /\ [][NextOptions]_vars

(***************************************************************************)
(* Properties                                                              *)
(***************************************************************************)
Order == <<RTORRENT, QBITTORRENT, TRANSMISSION, DELUGE>>
UrlOf == [rtorrent |-> "rtorrentRpcUrl", qbittorrent |-> "qbittorrentUrl",
          transmission |-> "transmissionRpcUrl", deluge |-> "delugeRpcUrl"]
Configured(cfg, client) == Truthy(cfg[UrlOf[client]])
Selecting(call) == call.made /\ call.before = NULL

\* C1: a getClient() call that selects (no adapter instantiated before it)
\* returns, when some URL is configured, the adapter of the first configured
\* URL in the order rtorrent, qbittorrent, transmission, deluge, and never an
\* adapter whose URL is not configured in the config it selected from.
C1_FirstMatchWins ==
    Selecting(lastCall) =>
        /\ (\E i \in 1..4 : Configured(lastCall.config, Order[i])) =>
              \E i \in 1..4 :
                  /\ lastCall.result = Order[i]
                  /\ Configured(lastCall.config, Order[i])
                  /\ \A j \in 1..(i - 1) : ~Configured(lastCall.config, Order[j])
        /\ lastCall.result \in TorrentClientType =>
              Configured(lastCall.config, lastCall.result)

\* C1 witness: rtorrent unset, qbittorrent and deluge both set, qbittorrent won.
C1_Witness ==
    /\ Selecting(lastCall)
    /\ ~Configured(lastCall.config, RTORRENT)
    /\ Configured(lastCall.config, QBITTORRENT)
    /\ Configured(lastCall.config, DELUGE)
    /\ lastCall.result = QBITTORRENT

HasDiscFile(searchee) ==
    \E f \in searchee.files : FileExt[f] \in {".iso", ".vob", ".bdmv", ".m2ts"}

\* C2: shouldRecheck(searchee, decision) is true exactly when the decision is
\* MATCH_PARTIAL or the searchee has a file with a video-disc extension.
C2_ShouldRecheckIff ==
    recheckCall.made =>
        (recheckCall.result <=>
            (recheckCall.decision = MATCH_PARTIAL \/ HasDiscFile(recheckCall.searchee)))

\* C2 witness: a MATCH on a searchee holding an .m2ts file is rechecked.
C2_Witness ==
    /\ recheckCall.made
    /\ recheckCall.decision = MATCH
    /\ "BDMV/STREAM/00000.m2ts" \in recheckCall.searchee.files
    /\ recheckCall.result = TRUE

\* C3 as stated: every getClient() call returns what the first call returned.
C3_SameAsFirstCall ==
    lastCall.made => lastCall.result = firstCall.result

\* C3 amended: once getClient() has returned an adapter, every later call
\* returns that adapter and activeClient is not replaced, whatever the
\* runtime config becomes.
C3_OnceSelectedNeverReplaced ==
    [][(lastCall.made /\ lastCall.result # NULL) =>
          /\ lastCall'.made
          /\ lastCall'.result = lastCall.result
          /\ activeClient' = lastCall.result]_vars

\* C3 witness: rtorrent was selected first; the config then dropped the
\* rtorrent URL and a later call still returned rtorrent.
C3_Witness ==
    /\ firstCall.made
    /\ firstCall.result = RTORRENT
    /\ lastCall.before = RTORRENT
    /\ ~Configured(lastCall.config, RTORRENT)
    /\ Configured(lastCall.config, DELUGE)
    /\ lastCall.result = RTORRENT

\* C10 as stated: getClient() never returns a null client.
C10_NeverNull ==
    lastCall.made => lastCall.result # NULL

\* C10 amended: getClient() returns null exactly when no adapter was
\* instantiated before the call and none of the four URLs is configured;
\* otherwise it returns one of the four adapters.
C10_NullIffNothingConfigured ==
    lastCall.made =>
        /\ lastCall.result \in TorrentClientType \cup {NULL}
        /\ lastCall.result = NULL <=>
              (lastCall.before = NULL /\ \A k \in UrlKeys : ~Truthy(lastCall.config[k]))
        /\ activeClient = lastCall.result

\* C10 witness: a call with no URL configured returned null.
C10_Witness ==
    /\ lastCall.made
    /\ lastCall.config = NoUrls
    /\ lastCall.result = NULL
    /\ activeClient = NULL

Has(step) == \E i \in 1..Len(log) : log[i] = step
Pos(step) == CHOOSE i \in 1..Len(log) : log[i] = step

\* C4: for a command run with validation enabled, the body (and with it the
\* daemon's server and jobs loop) starts only after config parsing, database
\* migration and startup validation have completed, in that order; once
\* config parsing or startup validation has failed the body is never started.
C4_BodyOnlyAfterValidation ==
    validateConfig(command) =>
        /\ Has("bodyStarted") =>
              /\ Has("configParsed") /\ Has("migrated") /\ Has("validated")
              /\ Pos("configParsed") < Pos("migrated")
              /\ Pos("migrated") < Pos("validated")
              /\ Pos("validated") < Pos("bodyStarted")
        /\ (serverStarted \/ jobsLoopStarted) => Has("bodyStarted")
        /\ (Has("configInvalid") \/ Has("validationFailed")) =>
              ~Has("bodyStarted") /\ ~serverStarted /\ ~jobsLoopStarted

\* C4 witness: the daemon body has started its server and jobs loop.
C4_Witness ==
    /\ command = DAEMON
    /\ Has("validated")
    /\ serverStarted
    /\ jobsLoopStarted

\* C5: once the clear-cache body has returned, no decision row with a null
\* info_hash remains, every row that had an info_hash is present and
\* unchanged, no row was added, and the indexer table is as the body found it.
C5_ClearCacheDeletesNullInfoHash ==
    (command = CLEAR_CACHE /\ Has("bodyReturned")) =>
        /\ \A id \in DOMAIN decisionTable : decisionTable[id].info_hash # NULL
        /\ \A id \in DOMAIN decisionBefore :
              decisionBefore[id].info_hash # NULL =>
                  /\ id \in DOMAIN decisionTable
                  /\ decisionTable[id] = decisionBefore[id]
        /\ DOMAIN decisionTable \subseteq DOMAIN decisionBefore
        /\ indexerTable = indexerBefore

\* C5 witness: the body ran on a table holding rows of both kinds.
C5_Witness ==
    /\ command = CLEAR_CACHE
    /\ Has("bodyReturned")
    /\ \E id \in DOMAIN decisionBefore : decisionBefore[id].info_hash = NULL
    /\ \E id \in DOMAIN decisionBefore : decisionBefore[id].info_hash # NULL
    /\ decisionTable # decisionBefore

\* C6: the four outcomes, read off the value testIndexerConnection returns:
\* success is OK; the two dedicated failure messages are INVALID_AUTH and
\* RATE_LIMITED; every other failure is UNKNOWN_ERROR.
Classified(result) ==
    IF result.success THEN OK
    ELSE IF result.message.text = "Authentication failed - check API key" THEN INVALID_AUTH
    ELSE IF result.message.text = "Rate limited by indexer" THEN RATE_LIMITED
    ELSE UNKNOWN_ERROR

\* C6: a connection test issues a caps query; a 401 response is classified
\* INVALID_AUTH, a 429 RATE_LIMITED, any 2xx OK, and every other status
\* UNKNOWN_ERROR (reported with that status).
C6_ResponseClassified ==
    (testResult.made /\ testResult.outcome = "returned") =>
        /\ testResult.request.params = [t |-> "caps"]
        /\ testResult.fetched.kind = "response" =>
              LET st == testResult.fetched.status
                  class == Classified(testResult.result)
              IN /\ st = 401 => class = INVALID_AUTH
                 /\ st = 429 => class = RATE_LIMITED
                 /\ st \in 200..299 => class = OK
                 /\ st \notin (200..299) \cup {401, 429} =>
                       /\ class = UNKNOWN_ERROR
                       /\ testResult.result.message.status = st

\* C6 witness: a 429 response was reported as rate limiting.
C6_Witness ==
    /\ testResult.made
    /\ testResult.outcome = "returned"
    /\ testResult.fetched.kind = "response"
    /\ testResult.fetched.status = 429
    /\ ~testResult.result.success
    /\ testResult.result.message.text = "Rate limited by indexer"

Returned(c, op) ==
    calls[c].op = op /\ calls[c].pc = "done" /\ calls[c].outcome = "returned"

\* C7 as stated: every indexer row's status is one of the four statuses.
C7_StatusInEnum ==
    \A id \in DOMAIN indexerTable : indexerTable[id].status \in IndexerStatus

\* C7 amended: every indexer row's status is one of the four statuses or
\* null; the row createIndexer inserts has status null, and updateIndexer
\* leaves the status of the row as it found it.
C7_StatusInEnumOrNull ==
    /\ \A id \in DOMAIN indexerTable :
          indexerTable[id].status \in IndexerStatus \cup {NULL}
    /\ \A c \in Calls :
          /\ Returned(c, "createIndexer") =>
                /\ calls[c].value.status = NULL
                /\ calls[c].value.id \in DOMAIN indexerTable =>
                      indexerTable[calls[c].value.id].status = NULL
          /\ Returned(c, "updateIndexer") =>
                calls[c].value.status = calls[c].existing.status

\* C7 witness: a created row with status null sits next to a rate-limited
\* row that updateIndexer has renamed.
C7_Witness ==
    /\ \E c \in Calls :
          /\ Returned(c, "createIndexer")
          /\ calls[c].value.id \in DOMAIN indexerTable
    /\ \E c \in Calls :
          /\ Returned(c, "updateIndexer")
          /\ calls[c].value.name = "renamed"
          /\ calls[c].value.status = RATE_LIMITED

Parsed == opts # Undefined
NotGiven(o) == o \notin DOMAIN argv

\* C8 as stated: when neither the command line nor the config file sets
\* them, the snatch timeout and the search timeout are a duration of 30
\* seconds (30000 ms).
C8_TimeoutsDefaultTo30Seconds ==
    Parsed =>
        \A o \in {"snatchTimeout", "searchTimeout"} :
            (NotGiven(o) /\ fileConfig[o] = Undefined) => ms(opts[o]) = Num(30000, 1)

BuiltIn ==
    [maxDataDepth |-> Num(2, 1), fuzzySizeThreshold |-> Num(2, 100), action |-> SAVE,
     delay |-> Num(10, 1), searchLimit |-> Num(0, 1), port |-> Num(2468, 1)]

\* C9: for max-data-depth, fuzzy-size-threshold, action, delay, search-limit
\* and port, the value used when the option is not given on the command line
\* is the config file's value when the file sets it, and otherwise the
\* built-in default 2, 0.02, save, 10, 0, 2468.
C9_DefaultsFromFileThenBuiltIn ==
    Parsed =>
        \A o \in DOMAIN BuiltIn :
            NotGiven(o) =>
                opts[o] = IF fileConfig[o] # Undefined THEN fileConfig[o] ELSE BuiltIn[o]

\* C9 witness: nothing relevant given on the command line; the file sets
\* max-data-depth and not the port.
C9_Witness ==
    /\ Parsed
    /\ NotGiven("port") /\ NotGiven("maxDataDepth") /\ NotGiven("fuzzySizeThreshold")
    /\ fileConfig.port = Undefined
    /\ fileConfig.maxDataDepth = Num(3, 1)
    /\ fileConfig.fuzzySizeThreshold = Undefined
    /\ opts.port = Num(2468, 1)
    /\ opts.maxDataDepth = Num(3, 1)
    /\ opts.fuzzySizeThreshold = Num(1, 50)

SameUrl(i, j) == indexerTable[i].url = indexerTable[j].url

\* A createIndexer call that found its sanitized URL in the table throws
\* and leaves the table as it was.
CreateOfExistingUrlFails ==
    \A c \in Calls :
        (/\ calls[c] = Idle
         /\ calls'[c].op = "createIndexer"
         /\ RowsWhereUrl(sanitizeUrl(calls'[c].input.url)) # {}) =>
            /\ calls'[c].pc = "done"
            /\ calls'[c].outcome = "threw"
            /\ indexerTable' = indexerTable

\* C11: after any sequence and interleaving of createIndexer, updateIndexer
\* and deleteIndexer calls the indexer table holds at most one row per
\* canonicalized URL, and a createIndexer whose sanitized URL already exists
\* fails and leaves the table unchanged.
C11_OneRowPerUrl ==
    /\ [](\A i, j \in DOMAIN indexerTable : SameUrl(i, j) => i = j)
    /\ [][CreateOfExistingUrlFails]_vars

\* The connection test ran: fetch was issued and settled.
ConnectionTested == testResult.made /\ "fetched" \in DOMAIN testResult

Is2xx(fetched) ==
    fetched.kind = "response" /\ fetched.status >= 200 /\ fetched.status <= 299

\* C12: testIndexerConnection never raises: whatever fetch settles with (2xx,
\* 401, 429, another status, a network error, the 30-second timeout) it
\* returns a result whose success flag is true exactly for a 2xx response;
\* testNewIndexer tests only the sanitized form of its URL; and a connection
\* test leaves every indexer row as it was.
C12_TestReturnsAndWritesNothing ==
    /\ [](ConnectionTested =>
            /\ testResult.outcome = "returned"
            /\ testResult.result.success \in BOOLEAN
            /\ testResult.result.success <=> Is2xx(testResult.fetched)
            /\ testResult.via = "testNewIndexer" =>
                  /\ \E u \in RawUrls : testResult.request.url = sanitizeUrl(u)
                  /\ testResult.name = testResult.request.url)
    /\ [][testResult' # testResult => indexerTable' = indexerTable]_vars

\* A URL with a query string was tested through testNewIndexer, the fetch
\* timed out, and a stored row is still what it was.
C12_Witness ==
    /\ ConnectionTested
    /\ testResult.via = "testNewIndexer"
    /\ testResult.fetched.kind = "throw"
    /\ testResult.fetched.message = "The operation was aborted due to timeout"
    /\ ~testResult.result.success
    /\ testResult.request.url = sanitizeUrl(UrlAQuery)
    /\ indexerTable # NoTable
    /\ indexerTable = indexerBefore

UpdatableColumns == {"name", "url", "apikey", "active"}

\* The step in which updateIndexer call c does its write: only supplied
\* columns of the row with the given id change, and they take the supplied
\* value (the url in sanitized form).
UpdateWriteFrame(c) ==
    (calls[c].pc = "update" /\ calls'[c].pc = "done") =>
        LET input == calls[c].input
            id == input.id
            supplied == (DOMAIN input) \cap UpdatableColumns
        IN /\ DOMAIN indexerTable' = DOMAIN indexerTable
           /\ \A j \in (DOMAIN indexerTable) \ {id} :
                 indexerTable'[j] = indexerTable[j]
           /\ id \in DOMAIN indexerTable =>
                 \A col \in DOMAIN indexerTable[id] :
                     IF col \in supplied
                     THEN indexerTable'[id][col] =
                              IF col = "url" THEN sanitizeUrl(input.url)
                              ELSE input[col]
                     ELSE indexerTable'[id][col] = indexerTable[id][col]

\* The step in which updateIndexer or deleteIndexer call c looks for a row
\* that is not there: it throws not-found and nothing is written.
MissingIdFails(c) ==
    (/\ calls[c] = Idle
     /\ calls'[c].op \in {"updateIndexer", "deleteIndexer"}
     /\ (IF calls'[c].op = "updateIndexer"
         THEN calls'[c].input.id ELSE calls'[c].input) \notin DOMAIN indexerTable) =>
        /\ calls'[c].pc = "done"
        /\ calls'[c].outcome = "threw"
        /\ calls'[c].value = "not found"
        /\ indexerTable' = indexerTable

\* C13: updateIndexer changes only the supplied fields among name, url,
\* apikey and active (url stored sanitized, name allowed to become null) on
\* the row with the given id; that row's id, status, retry_after and
\* capability columns and every other row are unchanged; updateIndexer and
\* deleteIndexer on an id no row has fail with not-found, table unchanged.
C13_UpdateFrame ==
    [][\A c \in Calls : UpdateWriteFrame(c) /\ MissingIdFails(c)]_vars

\* Two rows are stored; an updateIndexer call set the name of one of them to
\* null and returned; the row kept its status and retry_after; the other row
\* is the one a createIndexer call inserted.
C13_Witness ==
    \E c, d \in Calls :
        /\ Returned(c, "updateIndexer")
        /\ Returned(d, "createIndexer")
        /\ "name" \in DOMAIN calls[c].input
        /\ calls[c].input.name = NULL
        /\ calls[c].existing.name = "seed"
        /\ calls[c].input.id \in DOMAIN indexerTable
        /\ indexerTable[calls[c].input.id].name = NULL
        /\ indexerTable[calls[c].input.id].status = RATE_LIMITED
        /\ indexerTable[calls[c].input.id].retry_after # NULL
        /\ calls[d].value.id # calls[c].input.id
        /\ calls[d].value.id \in DOMAIN indexerTable
        /\ indexerTable[calls[d].value.id] = calls[d].value

BodySettled == Has("bodyReturned") \/ Has("bodyThrew")
BodyRunning == Has("bodyStarted") /\ ~BodySettled
EarlierStepFailed ==
    Has("configInvalid") \/ Has("migrationFailed") \/ Has("validationFailed")

\* C14: in withCrossSeedRuntime db.destroy() runs only once the command body
\* has settled (never while it runs), and it runs on every path out of the
\* try block, a failed earlier step included: from there the catch handler
\* and then db.destroy() are the steps that follow. The daemon body never
\* settles, so the connection is never destroyed while the daemon's server
\* and jobs loop are running.
C14_DestroyedOnlyAfterBodySettled ==
    /\ dbDestroyed => ~BodyRunning /\ (BodySettled \/ EarlierStepFailed)
    /\ (BodySettled \/ EarlierStepFailed) =>
          \/ dbDestroyed /\ pc = "done"
          \/ pc = "catch" /\ ENABLED ExitOnCrossSeedErrors
          \/ pc = "finally" /\ ENABLED DbDestroy
    /\ (serverStarted \/ jobsLoopStarted) =>
          /\ command = DAEMON
          /\ BodyRunning
          /\ ~dbDestroyed
          /\ ~ENABLED NextRuntime

\* The clear-cache body threw, the error was caught, and the connection was
\* destroyed after that.
C14_Witness ==
    /\ command = CLEAR_CACHE
    /\ dbDestroyed
    /\ Has("bodyThrew")
    /\ Pos("bodyThrew") < Pos("caught")
    /\ Pos("caught") < Pos("dbDestroyed")

====
